---------------------------- MODULE Spec2Model ----------------------------
(***************************************************************************)
(* A model of crawlexsses (src/crawlexsses.py): the line-file utilities,   *)
(* the merge, the filter/normalize/probe stage and the pipeline driver.    *)
(*                                                                         *)
(* A text line is a sequence of one-character strings, so that strip(),    *)
(* the '=' test and the extension regex are computed character by          *)
(* character.  A file is absent (NoFile) or holds a sequence of raw lines.  *)
(***************************************************************************)
EXTENDS Integers, Sequences, FiniteSets, TLC

VARIABLES
    mode,            \* args.mode
    rate,            \* args.rate_limit, after int(... or 0)
    path,            \* the executables shutil.which resolves
    pc,              \* position of the running program
    files,           \* the working directory: file name -> file
    generated,       \* main's list of history files
    pending,         \* batches the current loop still has to feed to its tool
    idx,             \* enumerate() index of the current loop
    acc,             \* normalized_all / probed_all while its loop fills it
    gf_lines,        \* locals of filter_with_gf_uro_httpx
    filtered,
    normalized_all,
    ret,             \* the tuple filter_with_gf_uro_httpx returned, <<>> before
    calls,           \* every external tool invocation so far, in order
    events,          \* what main did, in order: stage starts and ends, tool
                     \* calls, files merge_histories read
    exitCode,        \* -1 while running, then the exit status of the process
    missing,         \* the names main reported as missing
    err,             \* text of the RuntimeError that ended the run, or ""
    snapshot,        \* history: file -> what the last completed stage that
                     \* writes it left in it
    arg,             \* argument of the function under test; in the pipeline,
                     \* the working directory main started in
    res              \* result of the function under test

vars == <<mode, rate, path, pc, files, generated, pending, idx, acc, gf_lines,
          filtered, normalized_all, ret, calls, events, exitCode, missing, err,
          snapshot, arg, res>>

\* everything but pc, files, arg and res
runVars == <<mode, rate, path, generated, pending, idx, acc, gf_lines, filtered,
             normalized_all, ret, calls, events, exitCode, missing, err, snapshot>>

pipeVars == <<files, runVars>>

None == "None"
\* an absent file, and a file holding the raw lines ls
NoFile == [exists |-> FALSE, lines |-> <<>>]

File(ls) == [exists |-> TRUE, lines |-> ls]

\* snapshot of a file no completed stage has written
Unwritten == [written |-> FALSE, file |-> NoFile]

Written(file) == [written |-> TRUE, file |-> file]

-----------------------------------------------------------------------------
(* Bounds of the model *)

\* longest sequence handed to chunked / unique_preserve_order
MaxLen == 4
\* largest batch size (rate limit) tried
MaxRate == 1
\* longest URL the extension regex is tried on
MaxUrlLen == 5
\* most lines uro or httpx prints for one batch of the filter stage
MaxOut == 1

-----------------------------------------------------------------------------
(* Characters and strings *)

\* the characters of the model in code-point order (str comparison in sorted())
CharOrder ==
    << "\t", " ", ".", "/", "1", "2", "3", "4", ":", "=", "?",
       "A", "J", "S", "X", "_",
       "a", "b", "c", "d", "e", "f", "g", "h", "i", "j", "k", "l", "m", "n",
       "o", "p", "q", "r", "s", "t", "u", "v", "w", "x", "y", "z" >>

Ord(c) == CHOOSE i \in 1..Len(CharOrder) : CharOrder[i] = c

\* str.lower() on one character (re.IGNORECASE compares case-folded)
Lower(c) ==
    CASE c = "A" -> "a"
      [] c = "J" -> "j"
      [] c = "S" -> "s"
      [] c = "X" -> "x"
      [] OTHER -> c

\* the characters str.strip() removes
Whitespace == {" ", "\t"}

Min(a, b) == IF a < b THEN a ELSE b

SeqsUpTo(S, n) == UNION {[1..k -> S] : k \in 0..n}

Range(s) == {s[i] : i \in 1..Len(s)}

RECURSIVE Concat(_)
Concat(ss) == IF ss = <<>> THEN <<>> ELSE Head(ss) \o Concat(Tail(ss))

\* str < str : lexicographic by code point
StrLess(s, t) ==
    \E k \in 0..Min(Len(s), Len(t)) :
        /\ \A i \in 1..k : s[i] = t[i]
        /\ \/ k = Len(s) /\ k < Len(t)
           \/ k < Len(s) /\ k < Len(t) /\ Ord(s[k + 1]) < Ord(t[k + 1])

\* sorted(set(lines))
RECURSIVE SortedSet(_)
SortedSet(S) ==
    IF S = {} THEN <<>>
    ELSE LET m == CHOOSE x \in S : \A y \in S \ {x} : StrLess(x, y)
         IN <<m>> \o SortedSet(S \ {m})

\* str.strip()
RECURSIVE lstrip(_)
lstrip(s) == IF s # <<>> /\ Head(s) \in Whitespace THEN lstrip(Tail(s)) ELSE s

RECURSIVE rstrip(_)
rstrip(s) ==
    IF s # <<>> /\ s[Len(s)] \in Whitespace
    THEN rstrip(SubSeq(s, 1, Len(s) - 1)) ELSE s

strip(s) == rstrip(lstrip(s))

-----------------------------------------------------------------------------
(* Line-file utilities *)

\* [line.strip() for line in f if line.strip()] over the raw lines of a file
RECURSIVE StripNonEmpty(_)
StripNonEmpty(raw) ==
    IF raw = <<>> THEN <<>>
    ELSE IF strip(Head(raw)) # <<>>
         THEN <<strip(Head(raw))>> \o StripNonEmpty(Tail(raw))
         ELSE StripNonEmpty(Tail(raw))

\* read_lines(path) in the directory fs
read_lines(fs, p) == IF ~fs[p].exists THEN <<>> ELSE StripNonEmpty(fs[p].lines)

\* write_lines(path, lines): the directory afterwards
write_lines(fs, p, lines) == [fs EXCEPT ![p] = File(lines)]

\* os.path.exists(p) and os.remove(p)
remove_if_exists(fs, p) == [fs EXCEPT ![p] = NoFile]

\* a filter that lets every line through, blank ones too
KeepAll(xs) == xs

\* [s for s in xs if s.strip()]
RECURSIVE NonBlank(_)
NonBlank(xs) ==
    IF xs = <<>> THEN <<>>
    ELSE IF strip(Head(xs)) # <<>> THEN <<Head(xs)>> \o NonBlank(Tail(xs))
         ELSE NonBlank(Tail(xs))

RECURSIVE upo_loop(_, _, _, _)
upo_loop(lines, i, seen, result) ==
    IF i > Len(lines) THEN result
    ELSE IF lines[i] \notin seen
         THEN upo_loop(lines, i + 1, seen \cup {lines[i]}, Append(result, lines[i]))
         ELSE upo_loop(lines, i + 1, seen, result)

\* a deduplication that keeps the last occurrence of each line
RECURSIVE upo_keep_last(_)
upo_keep_last(lines) ==
    IF lines = <<>> THEN <<>>
    ELSE IF Head(lines) \in Range(Tail(lines)) THEN upo_keep_last(Tail(lines))
         ELSE <<Head(lines)>> \o upo_keep_last(Tail(lines))

unique_preserve_order(lines) == upo_loop(lines, 1, {}, <<>>)

\* a chunked that drops a short last chunk and yields nothing for size <= 0 on
\* empty input
chunked_floor(seq, size) ==
    IF size <= 0 THEN (IF seq = <<>> THEN <<>> ELSE <<seq>>)
    ELSE [k \in 1..(Len(seq) \div size) |->
              SubSeq(seq, (k - 1) * size + 1, k * size)]

\* range(0, len(seq), size) and seq[i : i + size]
chunked(seq, size) ==
    IF size <= 0 THEN <<seq>>
    ELSE [k \in 1..((Len(seq) + size - 1) \div size) |->
              SubSeq(seq, (k - 1) * size + 1, Min(k * size, Len(seq)))]

-----------------------------------------------------------------------------
(* EXCLUDE_EXT_REGEX *)

\* the alternatives of the regex group, verbatim
Exts == {
    <<"c","s","s">>, <<"w","o","f","f">>, <<"w","o","f","f","2">>, <<"t","x","t">>,
    <<"j","s">>, <<"m","4","r">>, <<"m","4","p">>, <<"m","4","b">>, <<"i","p","a">>,
    <<"a","s","a">>, <<"p","k","g">>, <<"c","r","a","s","h">>, <<"a","s","f">>,
    <<"a","s","x">>, <<"w","a","x">>, <<"w","m","v">>, <<"w","m","x">>, <<"a","v","i">>,
    <<"b","m","p">>, <<"c","l","a","s","s">>, <<"d","i","v","x">>, <<"d","o","c">>,
    <<"d","o","c","x">>, <<"e","x","e">>, <<"g","i","f">>, <<"g","z">>, <<"g","z","i","p">>,
    <<"i","c","o">>, <<"j","p","g">>, <<"j","p","e","g">>, <<"j","p","e">>,
    <<"w","e","b","p">>, <<"j","s","o","n">>, <<"m","d","b">>, <<"m","i","d">>,
    <<"m","i","d","i">>, <<"m","o","v">>, <<"q","t">>, <<"m","p","3">>, <<"m","4","a">>,
    <<"m","p","4">>, <<"m","4","v">>, <<"m","p","e","g">>, <<"m","p","g">>, <<"m","p","e">>,
    <<"w","e","b","m">>, <<"m","p","p">>, <<"_","o","t","f">>, <<"o","d","b">>,
    <<"o","d","c">>, <<"o","d","f">>, <<"o","d","g">>, <<"o","d","p">>, <<"o","d","s">>,
    <<"o","d","t">>, <<"o","g","g">>, <<"p","d","f">>, <<"p","n","g">>, <<"p","o","t">>,
    <<"p","p","s">>, <<"p","p","t">>, <<"p","p","t","x">>, <<"r","a">>, <<"r","a","m">>,
    <<"s","v","g">>, <<"s","v","g","z">>, <<"s","w","f">>, <<"t","a","r">>, <<"t","i","f">>,
    <<"t","i","f","f">>, <<"_","t","t","f">>, <<"w","a","v">>, <<"w","m","a">>,
    <<"w","r","i">>, <<"x","l","a">>, <<"x","l","s">>, <<"x","l","s","x">>, <<"x","l","t">>,
    <<"x","l","w">>, <<"z","i","p">>
    }

\* url[i..] starts with e, compared case-insensitively
MatchesAt(url, i, e) ==
    /\ i + Len(e) - 1 <= Len(url)
    /\ \A k \in 1..Len(e) : Lower(url[i + k - 1]) = e[k]

\* the regex matches with its "\." at position i:  \.(ext)(?:$|\?)
RegexAt(url, i) ==
    /\ url[i] = "."
    /\ \E e \in Exts :
          /\ MatchesAt(url, i + 1, e)
          /\ \/ i + Len(e) = Len(url)
             \/ i + Len(e) < Len(url) /\ url[i + Len(e) + 1] = "?"

\* the regex anchored at the end of the string only, and case-sensitive
RegexEndOnly(url) ==
    \E i \in 1..Len(url) :
        /\ url[i] = "."
        /\ SubSeq(url, i + 1, Len(url)) \in Exts

\* EXCLUDE_EXT_REGEX.search(url) is not None
EXCLUDE_EXT_REGEX_search(url) == \E i \in 1..Len(url) : RegexAt(url, i)

\* "=" in url
HasEq(url) == \E i \in 1..Len(url) : url[i] = "="

\* a structural filter that forgets the '=' test
StructuralNoEq(matches) ==
    SelectSeq(matches, LAMBDA url : ~EXCLUDE_EXT_REGEX_search(url))

\* [url for url in gf_lines if "=" in url and not EXCLUDE_EXT_REGEX.search(url)]
StructuralFilter(matches) ==
    SelectSeq(matches, LAMBDA url : HasEq(url) /\ ~EXCLUDE_EXT_REGEX_search(url))

-----------------------------------------------------------------------------
(* Names of the program *)

subs_file == "subs.txt"
waymore_file == "xss-waymore.txt"
katana_file == "xss-katana.txt"
gau_file == "xss-gau.txt"
merged_file == "xss.txt"
knox_out == "xssoutput.txt"

Files == {subs_file, waymore_file, katana_file, gau_file, merged_file, knox_out}

Modes == {"waymore", "waymore-katana", "all"}

Tools == {"subfinder", "httpx", "gf", "uro", "knoxnl", "waymore", "katana", "gau"}

\* some lines
U1 == <<"u", "1">>
U2 == <<"u", "2">>
U3 == <<"u", "3">>
U1Padded == <<" ", "u", "1", "\t">>
Blank == <<" ">>

\* the pipeline at rest, for the specifications that exercise one function
RunIdle ==
    /\ mode = "all"
    /\ rate = 0
    /\ path = Tools
    /\ generated = <<>>
    /\ pending = <<>>
    /\ idx = 0
    /\ acc = <<>>
    /\ gf_lines = <<>>
    /\ filtered = <<>>
    /\ normalized_all = <<>>
    /\ ret = <<>>
    /\ calls = <<>>
    /\ events = <<>>
    /\ exitCode = -1
    /\ missing = <<>>
    /\ err = ""
    /\ snapshot = [f \in Files |-> Unwritten]

PipeIdle ==
    /\ files = [f \in Files |-> NoFile]
    /\ RunIdle

-----------------------------------------------------------------------------
(* chunked, on its own *)

Items == {"x", "y"}

InitChunked ==
    /\ pc = "chunked_call"
    /\ arg \in [seq : SeqsUpTo(Items, MaxLen), size : (-1)..(MaxRate + 1)]
    /\ res = None
    /\ PipeIdle

CallChunked ==
    /\ pc = "chunked_call"
    /\ res' = chunked(arg.seq, arg.size)
    /\ pc' = "chunked_done"
    /\ UNCHANGED <<arg, pipeVars>>

SpecChunked == InitChunked /\ [][CallChunked]_vars

(* C8: for size >= 1 the chunks concatenate back to the input, no chunk is    *)
(* longer than size and all but the last have exactly size elements; for      *)
(* size <= 0 the result is the single chunk holding the whole input, also     *)
(* when the input is empty.                                                   *)
C8_ChunkedReconstructs ==
    pc = "chunked_done" =>
        /\ arg.size >= 1 =>
              /\ Concat(res) = arg.seq
              /\ \A k \in 1..Len(res) : Len(res[k]) <= arg.size
              /\ \A k \in 1..(Len(res) - 1) : Len(res[k]) = arg.size
        /\ arg.size <= 0 => res = <<arg.seq>>

C8_Witness ==
    /\ pc = "chunked_done"
    /\ arg.size = 2
    /\ Len(arg.seq) = 3
    /\ arg.seq[1] # arg.seq[2]
    /\ Len(res) = 2
    /\ Len(res[2]) = 1

-----------------------------------------------------------------------------
(* unique_preserve_order, on its own *)

Items3 == {"x", "y", "z"}

InitUnique ==
    /\ pc = "unique_call"
    /\ arg \in SeqsUpTo(Items3, MaxLen)
    /\ res = <<>>
    /\ PipeIdle

CallUnique ==
    /\ pc = "unique_call"
    /\ res' = <<unique_preserve_order(arg)>>
    /\ pc' = "unique_once"
    /\ UNCHANGED <<arg, pipeVars>>

CallUniqueAgain ==
    /\ pc = "unique_once"
    /\ res' = Append(res, unique_preserve_order(res[1]))
    /\ pc' = "unique_twice"
    /\ UNCHANGED <<arg, pipeVars>>

NextUnique == CallUnique \/ CallUniqueAgain

SpecUnique == InitUnique /\ [][NextUnique]_vars

\* index of the first occurrence of x in s
FirstIdx(s, x) == CHOOSE i \in 1..Len(s) : s[i] = x /\ \A j \in 1..(i - 1) : s[j] # x

\* out holds each distinct element of s once, ordered by first occurrence in s
IsFirstOccurrences(out, s) ==
    /\ Range(out) = Range(s)
    /\ \A k, l \in 1..Len(out) : k # l => out[k] # out[l]
    /\ \A k, l \in 1..Len(out) : k < l => FirstIdx(s, out[k]) < FirstIdx(s, out[l])

(* C9: the output of unique_preserve_order holds each distinct input element  *)
(* exactly once, in the order of the elements' first occurrences in the       *)
(* input, and applying the function to its own output changes nothing.        *)
C9_UniqueIdempotentFirstOccurrence ==
    /\ pc \in {"unique_once", "unique_twice"} => IsFirstOccurrences(res[1], arg)
    /\ pc = "unique_twice" => res[2] = res[1]

C9_Witness ==
    /\ pc = "unique_twice"
    /\ arg = <<"x", "y", "x", "z">>
    /\ res[2] = <<"x", "y", "z">>

-----------------------------------------------------------------------------
(* EXCLUDE_EXT_REGEX.search, on its own *)

UrlChars == {"a", ".", "?", "j", "s", "S"}

InitRegex ==
    /\ pc = "regex_call"
    /\ arg \in SeqsUpTo(UrlChars, MaxUrlLen)
    /\ res = None
    /\ PipeIdle

CallRegex ==
    /\ pc = "regex_call"
    /\ res' = EXCLUDE_EXT_REGEX_search(arg)
    /\ pc' = "regex_done"
    /\ UNCHANGED <<arg, pipeVars>>

SpecRegex == InitRegex /\ [][CallRegex]_vars

\* the part of a URL before its first '?'
PathOf(url) ==
    IF \E i \in 1..Len(url) : url[i] = "?"
    THEN SubSeq(url, 1, (CHOOSE i \in 1..Len(url) :
                            url[i] = "?" /\ \A j \in 1..(i - 1) : url[j] # "?") - 1)
    ELSE url

\* s ends in a dot followed by a listed extension, in any letter case
EndsInListedExt(s) ==
    \E e \in Exts :
        /\ Len(s) >= Len(e) + 1
        /\ s[Len(s) - Len(e)] = "."
        /\ \A k \in 1..Len(e) : Lower(s[Len(s) - Len(e) + k]) = e[k]

(* C7 as stated: a URL is excluded when what precedes its '?query' ends in a  *)
(* dot and a listed extension (any letter case), and is not excluded when it  *)
(* ends in an unlisted extension or in none.                                  *)
C7_AsStated ==
    pc = "regex_done" => (res <=> EndsInListedExt(PathOf(arg)))

(* C7 amended: a URL is excluded exactly when some dot followed by a listed   *)
(* extension (any letter case) stands at the end of the string or right       *)
(* before a '?', wherever in the string that is: a URL whose path ends in a   *)
(* listed extension is always excluded, and one whose path ends in an         *)
(* unlisted extension or none is excluded only through such an occurrence     *)
(* inside its query string.                                                   *)
C7_ExcludedIffExtBeforeEndOrQuery ==
    pc = "regex_done" =>
        /\ EndsInListedExt(PathOf(arg)) => res
        /\ res <=> \E k \in 1..Len(arg) :
                      /\ EndsInListedExt(SubSeq(arg, 1, k))
                      /\ k = Len(arg) \/ arg[k + 1] = "?"

C7_Witness ==
    /\ pc = "regex_done"
    /\ res
    /\ arg = <<"a", ".", "j", "S", "?">>

-----------------------------------------------------------------------------
(* merge_histories *)

\* a merge that removes duplicates inside each input file only
merge_per_file_dedup(fs, outputs, merged_out) ==
    write_lines(fs, merged_out,
        Concat([i \in 1..Len(outputs) |->
                   unique_preserve_order(read_lines(fs, outputs[i]))]))

\* all_lines.extend(read_lines(path)) for each path, unique_preserve_order,
\* write_lines
merge_histories(fs, outputs, merged_out) ==
    write_lines(fs, merged_out,
        unique_preserve_order(
            Concat([i \in 1..Len(outputs) |-> read_lines(fs, outputs[i])])))

\* longest input file of the merge specification
MaxFileLen == 3

LinesA == {U1, U2, U1Padded}
LinesB == {U3, U2, Blank}

InitMerge ==
    /\ pc = "merge_call"
    /\ arg \in SeqsUpTo({waymore_file, katana_file, gau_file}, 3)
    /\ res = None
    /\ \E a \in {File(l) : l \in SeqsUpTo(LinesA, MaxFileLen)} \cup {NoFile},
          b \in {File(l) : l \in SeqsUpTo(LinesB, MaxFileLen - 1)} \cup {NoFile},
          m \in {NoFile, File(<<U3>>)} :
          files = [f \in Files |->
                      CASE f = waymore_file -> a
                        [] f = katana_file -> b
                        [] f = merged_file -> m
                        [] OTHER -> NoFile]
    /\ RunIdle

CallMerge ==
    /\ pc = "merge_call"
    /\ files' = merge_histories(files, arg, merged_file)
    /\ pc' = "merge_done"
    /\ UNCHANGED <<runVars, arg, res>>

SpecMerge == InitMerge /\ [][CallMerge]_vars

\* s without its leading and trailing whitespace, said without recursion
Trimmed(s) ==
    LET keep == {i \in 1..Len(s) : s[i] \notin Whitespace}
    IN IF keep = {} THEN <<>>
       ELSE SubSeq(s, CHOOSE i \in keep : \A j \in keep : i <= j,
                      CHOOSE i \in keep : \A j \in keep : i >= j)

\* the trimmed non-empty lines of a file; none when the file does not exist
TrimmedLinesOf(fs, p) ==
    IF fs[p] = NoFile THEN <<>>
    ELSE SelectSeq([i \in 1..Len(fs[p].lines) |-> Trimmed(fs[p].lines[i])],
                   LAMBDA l : l # <<>>)

(* C5: after merge_histories(outputs, merged_out) the merged file holds each  *)
(* distinct trimmed non-empty line of the input files, concatenated in list   *)
(* order, exactly once and ordered by first occurrence; an input file that    *)
(* does not exist contributes no line; A = [u1,u2,u1], B = [u3,u2] gives      *)
(* [u1,u2,u3].                                                                *)
C5_MergeFirstSeenOrder ==
    pc = "merge_done" =>
        /\ files[merged_file].exists
        /\ IsFirstOccurrences(files[merged_file].lines,
               Concat([i \in 1..Len(arg) |-> TrimmedLinesOf(files, arg[i])]))
        /\ (/\ arg = <<waymore_file, katana_file>>
            /\ files[waymore_file] = File(<<U1, U2, U1>>)
            /\ files[katana_file] = File(<<U3, U2>>))
           => files[merged_file] = File(<<U1, U2, U3>>)

C5_Witness ==
    /\ pc = "merge_done"
    /\ arg = <<gau_file, waymore_file, katana_file>>
    /\ files[gau_file] = NoFile
    /\ files[waymore_file] = File(<<U1Padded, U2, U1>>)
    /\ files[katana_file] = File(<<U3, U2>>)
    /\ files[merged_file] = File(<<U1, U2, U3>>)

-----------------------------------------------------------------------------
(* External tools and what the driver records *)

\* exit statuses an external tool is tried with
RCs == {0, 1}

\* one invocation through run_command
Call(tool, input, rc) == [tool |-> tool, input |-> input, rc |-> rc]

Ev(kind, what) == <<kind, what>>

\* what a tool that is given an output path does to that file: leaves it as
\* it is, leaves it empty, or leaves it holding one line of U
Keep == [keep |-> TRUE, file |-> NoFile]

Writes(U) ==
    {Keep, [keep |-> FALSE, file |-> File(<<>>)]}
        \cup {[keep |-> FALSE, file |-> File(<<u>>)] : u \in U}

\* what a tool prints in the whole pipeline: nothing, or one line of U
Prints(U) == {<<>>} \cup {<<u>> : u \in U}

Apply(fs, p, w) == IF w.keep THEN fs ELSE [fs EXCEPT ![p] = w.file]

\* rate_limit if rate_limit > 0 else len(seq)
BatchSize(n, r) == IF r > 0 THEN r ELSE n

\* the file a stage leaves behind
StageFile(stage) ==
    CASE stage = "discovery" -> subs_file
      [] stage = "waymore" -> waymore_file
      [] stage = "katana" -> katana_file
      [] stage = "gau" -> gau_file
      [] stage = "merge" -> merged_file
      [] stage = "filter" -> merged_file
      [] stage = "knoxnl" -> knox_out

\* the stage that starts when main reaches pc value p
StageAt(p) == IF p = "subfinder" THEN "discovery" ELSE p

-----------------------------------------------------------------------------
(* Preflight *)

\* a required list that leaves gau out
required_without_gau(m) ==
    <<"subfinder", "httpx", "gf", "uro", "knoxnl">>
        \o (IF m \in {"waymore", "waymore-katana", "all"} THEN <<"waymore">> ELSE <<>>)
        \o (IF m \in {"waymore-katana", "all"} THEN <<"katana">> ELSE <<>>)

\* main's "Dependencies per mode"
required(m) ==
    <<"subfinder", "httpx", "gf", "uro", "knoxnl">>
        \o (IF m \in {"waymore", "waymore-katana", "all"} THEN <<"waymore">> ELSE <<>>)
        \o (IF m \in {"waymore-katana", "all"} THEN <<"katana">> ELSE <<>>)
        \o (IF m = "all" THEN <<"gau">> ELSE <<>>)

\* the missing list of ensure_tools_exist; ok is missing = <<>>
ensure_tools_exist(tools, p) == SelectSeq(tools, LAMBDA t : t \notin p)

-----------------------------------------------------------------------------
(* How an action leaves a stage *)

constVars == <<mode, rate, path, arg, res, missing>>

\* the stage goes on
Continue(evs, fs, nxt) ==
    /\ pc' = nxt
    /\ files' = fs
    /\ events' = events \o evs
    /\ UNCHANGED <<snapshot, exitCode, err>>

\* raise RuntimeError(msg): nothing catches it, the process ends
Raise(evs, fs, msg) ==
    /\ pc' = "raised"
    /\ files' = fs
    /\ events' = events \o evs
    /\ exitCode' = 1
    /\ err' = msg
    /\ UNCHANGED snapshot

\* the stage returns to main, which logs its result and starts the next one
Finish(stage, evs, fs, nxt) ==
    /\ pc' = nxt
    /\ files' = fs
    /\ events' = events \o evs \o <<Ev("end", stage)>>
                   \o (IF nxt = "done" THEN <<>> ELSE <<Ev("start", StageAt(nxt))>>)
    /\ snapshot' = [snapshot EXCEPT ![StageFile(stage)] = Written(fs[StageFile(stage)])]
    /\ exitCode' = IF nxt = "done" THEN 0 ELSE exitCode
    /\ err' = err

\* a return-code test that never sees a failure
never_failed(rc) == FALSE

\* if proc.returncode != 0, at each call site
subfinder_failed(rc) == rc # 0

httpx_subs_failed(rc) == rc # 0

waymore_failed(rc) == rc # 0

katana_failed(rc) == rc # 0

gau_failed(rc) == rc # 0

gf_failed(rc) == rc # 0

uro_failed(rc) == rc # 0

httpx_urls_failed(rc) == rc # 0

knoxnl_failed(rc) == rc # 0

\* a mode test that sends every mode but "all" from waymore to the merge
after_waymore_all_only(m) == IF m = "all" THEN "katana" ELSE "merge"

\* if mode in ("waymore-katana", "all")
after_waymore(m) == IF m \in {"waymore-katana", "all"} THEN "katana" ELSE "merge"

\* if mode == "all"
after_katana(m) == IF m = "all" THEN "gau" ELSE "merge"

-----------------------------------------------------------------------------
(* main *)

Preflight ==
    /\ pc = "preflight"
    /\ LET miss == ensure_tools_exist(required(mode), path)
       IN IF miss # <<>>
          THEN /\ missing' = miss
               /\ pc' = "exited"
               /\ exitCode' = 1
               /\ UNCHANGED <<files, events, snapshot, err>>
          ELSE /\ missing' = missing
               /\ pc' = "subfinder"
               /\ events' = Append(events, Ev("start", "discovery"))
               /\ UNCHANGED <<files, snapshot, exitCode, err>>
    /\ UNCHANGED <<mode, rate, path, arg, res, generated, pending, idx, acc,
                   gf_lines, filtered, normalized_all, ret, calls>>

\* subfinder_to_httpx up to its loop
SubfinderCall(Outs) ==
    /\ pc = "subfinder"
    /\ \E rc \in RCs, out \in Outs :
          LET ev == <<Ev("call", "subfinder")>>
              subdomains == StripNonEmpty(out)
          IN /\ rc = 0 \/ out = <<>>
             /\ calls' = Append(calls, Call("subfinder", <<>>, rc))
             /\ IF subfinder_failed(rc)
                THEN /\ Raise(ev, files, "subfinder failed")
                     /\ UNCHANGED <<pending, idx>>
                ELSE IF subdomains = <<>>
                THEN /\ Finish("discovery", ev,
                               write_lines(files, subs_file, <<>>), "waymore")
                     /\ UNCHANGED <<pending, idx>>
                ELSE /\ Continue(ev, remove_if_exists(files, subs_file), "httpx_subs")
                     /\ pending' = chunked(subdomains, BatchSize(Len(subdomains), rate))
                     /\ idx' = 0
    /\ UNCHANGED <<constVars, generated, acc, gf_lines, filtered, normalized_all, ret>>

\* one round of the loop of subfinder_to_httpx: httpx writes straight into
\* subs_out, opened "wb" for the first batch and "ab" afterwards
HttpxSubsCall(Outs) ==
    /\ pc = "httpx_subs"
    /\ \E rc \in RCs, out \in Outs :
          LET batch == Head(pending)
              ev == <<Ev("call", "httpx")>>
              fs == [files EXCEPT ![subs_file] =
                        IF idx = 0 THEN File(out) ELSE File(files[subs_file].lines \o out)]
          IN /\ calls' = Append(calls, Call("httpx", batch, rc))
             /\ IF httpx_subs_failed(rc)
                THEN /\ Raise(ev, fs, "httpx failed while probing subdomains")
                     /\ UNCHANGED <<pending, idx>>
                ELSE IF Tail(pending) = <<>>
                THEN /\ Finish("discovery", ev, fs, "waymore")
                     /\ pending' = <<>>
                     /\ idx' = 0
                ELSE /\ Continue(ev, fs, "httpx_subs")
                     /\ pending' = Tail(pending)
                     /\ idx' = idx + 1
    /\ UNCHANGED <<constVars, generated, acc, gf_lines, filtered, normalized_all, ret>>

\* run_waymore, and main up to the next stage
WaymoreCall(Ws) ==
    /\ pc = "waymore"
    /\ \E rc \in RCs, w \in Ws :
          LET ev == <<Ev("call", "waymore")>>
              fs == Apply(files, waymore_file, w)
          IN /\ calls' = Append(calls, Call("waymore", <<>>, rc))
             /\ IF waymore_failed(rc)
                THEN /\ Raise(ev, fs, "waymore failed")
                     /\ UNCHANGED generated
                ELSE /\ Finish("waymore", ev, fs, after_waymore(mode))
                     /\ generated' = Append(generated, waymore_file)
    /\ UNCHANGED <<constVars, pending, idx, acc, gf_lines, filtered, normalized_all, ret>>

\* run_katana, and main up to the next stage
KatanaCall(Ws) ==
    /\ pc = "katana"
    /\ \E rc \in RCs, w \in Ws :
          LET ev == <<Ev("call", "katana")>>
              fs == Apply(files, katana_file, w)
          IN /\ calls' = Append(calls, Call("katana", <<>>, rc))
             /\ IF katana_failed(rc)
                THEN /\ Raise(ev, fs, "katana failed")
                     /\ UNCHANGED generated
                ELSE /\ Finish("katana", ev, fs, after_katana(mode))
                     /\ generated' = Append(generated, katana_file)
    /\ UNCHANGED <<constVars, pending, idx, acc, gf_lines, filtered, normalized_all, ret>>

\* run_gau up to its loop
GauBegin ==
    /\ pc = "gau"
    /\ LET subs == read_lines(files, subs_file)
       IN IF subs = <<>>
          THEN /\ Finish("gau", <<>>, write_lines(files, gau_file, <<>>), "merge")
               /\ generated' = Append(generated, gau_file)
               /\ UNCHANGED pending
          ELSE /\ Continue(<<>>, remove_if_exists(files, gau_file), "gau_loop")
               /\ pending' = chunked(subs, BatchSize(Len(subs), rate))
               /\ UNCHANGED generated
    /\ UNCHANGED <<constVars, idx, acc, gf_lines, filtered, normalized_all, ret, calls>>

\* one round of the loop of run_gau: gau is given -o out_file
GauCall(Ws) ==
    /\ pc = "gau_loop"
    /\ \E rc \in RCs, w \in Ws :
          LET batch == Head(pending)
              ev == <<Ev("call", "gau")>>
              fs == Apply(files, gau_file, w)
          IN /\ calls' = Append(calls, Call("gau", batch, rc))
             /\ IF gau_failed(rc)
                THEN /\ Raise(ev, fs, "gau failed")
                     /\ UNCHANGED <<pending, generated>>
                ELSE IF Tail(pending) = <<>>
                THEN /\ Finish("gau", ev, fs, "merge")
                     /\ pending' = <<>>
                     /\ generated' = Append(generated, gau_file)
                ELSE /\ Continue(ev, fs, "gau_loop")
                     /\ pending' = Tail(pending)
                     /\ UNCHANGED generated
    /\ UNCHANGED <<constVars, idx, acc, gf_lines, filtered, normalized_all, ret>>

\* main's step 3: merge_histories(generated, merged_file)
Merge ==
    /\ pc = "merge"
    /\ Finish("merge", [i \in 1..Len(generated) |-> Ev("read", generated[i])],
              merge_histories(files, generated, merged_file), "filter")
    /\ UNCHANGED <<constVars, generated, pending, idx, acc, gf_lines, filtered,
                   normalized_all, ret, calls>>

\* filter_with_gf_uro_httpx(merged_file, merged_file, ...) up to the gf call
FilterBegin ==
    /\ pc = "filter"
    /\ LET lines == read_lines(files, merged_file)
       IN IF lines = <<>>
          THEN /\ Finish("filter", <<>>, write_lines(files, merged_file, <<>>), "knoxnl")
               /\ ret' = <<0, 0, 0, 0>>
               /\ UNCHANGED pending
          ELSE /\ Continue(<<>>, files, "gf")
               /\ pending' = <<SortedSet(Range(lines))>>
               /\ UNCHANGED ret
    /\ UNCHANGED <<constVars, generated, idx, acc, gf_lines, filtered,
                   normalized_all, calls>>

\* gf xss, the structural filter, and the removal of final_out before uro
GfCall(Outs) ==
    /\ pc = "gf"
    /\ \E rc \in RCs, out \in Outs :
          LET ev == <<Ev("call", "gf")>>
              fl == StructuralFilter(out)
          IN /\ rc = 0 \/ out = <<>>
             /\ calls' = Append(calls, Call("gf", Head(pending), rc))
             /\ IF gf_failed(rc)
                THEN /\ Raise(ev, files, "gf xss failed")
                     /\ UNCHANGED <<pending, gf_lines, filtered, ret>>
                ELSE /\ gf_lines' = out
                     /\ filtered' = fl
                     /\ IF fl = <<>>
                        THEN /\ Finish("filter", ev,
                                       write_lines(files, merged_file, <<>>), "knoxnl")
                             /\ ret' = <<Len(out), 0, 0, 0>>
                             /\ pending' = <<>>
                        ELSE /\ Continue(ev, remove_if_exists(files, merged_file), "uro")
                             /\ pending' = chunked(fl, BatchSize(Len(fl), rate))
                             /\ UNCHANGED ret
    /\ UNCHANGED <<constVars, generated, idx, acc, normalized_all>>

\* one round of the uro loop; after the last one, the deduplication and the
\* short-circuit on an empty result
UroCall(Outs) ==
    /\ pc = "uro"
    /\ \E rc \in RCs, out \in Outs :
          LET ev == <<Ev("call", "uro")>>
              acc2 == acc \o out
              na == unique_preserve_order(NonBlank(acc2))
          IN /\ rc = 0 \/ out = <<>>
             /\ calls' = Append(calls, Call("uro", Head(pending), rc))
             /\ IF uro_failed(rc)
                THEN /\ Raise(ev, files, "uro failed")
                     /\ UNCHANGED <<pending, acc, normalized_all, ret>>
                ELSE IF Tail(pending) # <<>>
                THEN /\ Continue(ev, files, "uro")
                     /\ pending' = Tail(pending)
                     /\ acc' = acc2
                     /\ UNCHANGED <<normalized_all, ret>>
                ELSE /\ normalized_all' = na
                     /\ acc' = <<>>
                     /\ IF na = <<>>
                        THEN /\ Finish("filter", ev,
                                       write_lines(files, merged_file, <<>>), "knoxnl")
                             /\ ret' = <<Len(gf_lines), Len(filtered), 0, 0>>
                             /\ pending' = <<>>
                        ELSE /\ Continue(ev, files, "httpx_urls")
                             /\ pending' = chunked(na, BatchSize(Len(na), rate))
                             /\ UNCHANGED ret
    /\ UNCHANGED <<constVars, generated, idx, gf_lines, filtered>>

\* one round of the httpx loop; after the last one, the deduplication, the
\* write of final_out and the return
HttpxUrlsCall(Outs) ==
    /\ pc = "httpx_urls"
    /\ \E rc \in RCs, out \in Outs :
          LET ev == <<Ev("call", "httpx")>>
              acc2 == acc \o out
              pa == unique_preserve_order(NonBlank(acc2))
          IN /\ rc = 0 \/ out = <<>>
             /\ calls' = Append(calls, Call("httpx", Head(pending), rc))
             /\ IF httpx_urls_failed(rc)
                THEN /\ Raise(ev, files, "httpx failed while probing URLs")
                     /\ UNCHANGED <<pending, acc, ret>>
                ELSE IF Tail(pending) # <<>>
                THEN /\ Continue(ev, files, "httpx_urls")
                     /\ pending' = Tail(pending)
                     /\ acc' = acc2
                     /\ UNCHANGED ret
                ELSE /\ Finish("filter", ev, write_lines(files, merged_file, pa), "knoxnl")
                     /\ ret' = <<Len(gf_lines), Len(filtered), Len(normalized_all), Len(pa)>>
                     /\ pending' = <<>>
                     /\ acc' = <<>>
    /\ UNCHANGED <<constVars, generated, idx, gf_lines, filtered, normalized_all>>

\* run_knoxnl, and main to its end
KnoxnlCall(Ws) ==
    /\ pc = "knoxnl"
    /\ \E rc \in RCs, w \in Ws :
          LET ev == <<Ev("call", "knoxnl")>>
              fs == Apply(files, knox_out, w)
          IN /\ calls' = Append(calls, Call("knoxnl", <<>>, rc))
             /\ IF knoxnl_failed(rc)
                THEN Raise(ev, fs, "knoxnl failed")
                ELSE Finish("knoxnl", ev, fs, "done")
    /\ UNCHANGED <<constVars, generated, pending, idx, acc, gf_lines, filtered,
                   normalized_all, ret>>

-----------------------------------------------------------------------------
(* The whole pipeline *)

\* most required tools that are not installed
MaxMissing == 2
\* most lines subfinder prints
MaxSubs == 2

H1 == <<"h", "1">>
UA == <<"a", "?", "x", "=", "1">>
UB == <<"b", "?", "y", "=", "2">>
Stale == <<"o", "l", "d">>

Rates == (-1)..MaxRate

Init ==
    /\ mode \in Modes
    /\ rate \in Rates
    /\ path \in {Tools \ M : M \in {S \in SUBSET Tools : Cardinality(S) <= MaxMissing}}
    /\ pc = "preflight"
    /\ files \in {[f \in Files |-> NoFile], [f \in Files |-> File(<<Stale>>)]}
    /\ arg = files
    /\ res = None
    /\ generated = <<>>
    /\ pending = <<>>
    /\ idx = 0
    /\ acc = <<>>
    /\ gf_lines = <<>>
    /\ filtered = <<>>
    /\ normalized_all = <<>>
    /\ ret = <<>>
    /\ calls = <<>>
    /\ events = <<>>
    /\ exitCode = -1
    /\ missing = <<>>
    /\ err = ""
    /\ snapshot = [f \in Files |-> Unwritten]

Next ==
    \/ Preflight
    \/ SubfinderCall(SeqsUpTo({H1}, MaxSubs))
    \/ HttpxSubsCall(Prints({H1}))
    \/ WaymoreCall(Writes({UA}))
    \/ KatanaCall(Writes({UB}))
    \/ GauBegin
    \/ GauCall(Writes({UA}))
    \/ Merge
    \/ FilterBegin
    \/ GfCall(Prints({UA}))
    \/ UroCall(Prints({UA}))
    \/ HttpxUrlsCall(Prints({UA}))
    \/ KnoxnlCall(Writes({UA}))

Spec == Init /\ [][Next]_vars

-----------------------------------------------------------------------------
(* Properties of the pipeline *)

IsPrefix(s, t) == Len(s) <= Len(t) /\ SubSeq(t, 1, Len(s)) = s

HistoryStages == {"waymore", "katana", "gau"}

(* C1: once an external tool has returned a non-zero status, that call is    *)
(* the last thing the run did: no other tool is invoked after it and no      *)
(* stage starts after it; and when httpx fails during discovery, no history  *)
(* stage (waymore, katana, gau) has started or been invoked.                 *)
C1_NoToolAfterFailure ==
    /\ \A i \in 1..Len(calls) :
          calls[i].rc # 0 =>
              /\ i = Len(calls)
              /\ pc = "raised"
              /\ exitCode = 1
              /\ events[Len(events)] = Ev("call", calls[i].tool)
    /\ (/\ \E i \in 1..Len(calls) : calls[i].tool = "httpx" /\ calls[i].rc # 0
        /\ Ev("end", "discovery") \notin Range(events))
       => /\ \A s \in HistoryStages : Ev("start", s) \notin Range(events)
          /\ \A i \in 1..Len(calls) : calls[i].tool \notin HistoryStages

C1_Witness ==
    /\ pc = "raised"
    /\ Len(calls) = 3
    /\ calls[2].tool = "httpx" /\ calls[2].rc = 0
    /\ calls[3].tool = "httpx" /\ calls[3].rc = 1
    /\ err = "httpx failed while probing subdomains"

\* the executables the selected mode needs
RequiredSet(m) ==
    {"subfinder", "httpx", "gf", "uro", "knoxnl", "waymore"}
        \cup (IF m \in {"waymore-katana", "all"} THEN {"katana"} ELSE {})
        \cup (IF m = "all" THEN {"gau"} ELSE {})

(* C2: when an executable the mode requires is not resolvable, main exits    *)
(* with code 1, reports exactly the unresolvable required names, invokes no  *)
(* tool, starts no stage and leaves every file as it found it.               *)
C2_MissingToolAbortsBeforeAnyStage ==
    (RequiredSet(mode) \ path # {} /\ pc # "preflight") =>
        /\ pc = "exited"
        /\ exitCode = 1
        /\ Range(missing) = RequiredSet(mode) \ path
        /\ Len(missing) = Cardinality(RequiredSet(mode) \ path)
        /\ calls = <<>>
        /\ events = <<>>
        /\ files = arg

C2_Witness ==
    /\ pc = "exited"
    /\ mode = "all"
    /\ missing = <<"httpx", "gau">>
    /\ files[subs_file].exists

(* C3: when a run has aborted on a failing tool, every file that a completed *)
(* stage wrote still holds what that stage left in it.                       *)
C3_CompletedStageFilesKept ==
    pc = "raised" =>
        \A f \in Files : snapshot[f].written => files[f] = snapshot[f].file

\* the stages of a run in mode m, in order
ExpectedStages(m) ==
    <<"discovery", "waymore">>
        \o (IF m \in {"waymore-katana", "all"} THEN <<"katana">> ELSE <<>>)
        \o (IF m = "all" THEN <<"gau">> ELSE <<>>)
        \o <<"merge", "filter", "knoxnl">>

ExpectedStageEvents(m) ==
    Concat([i \in 1..Len(ExpectedStages(m)) |->
               <<Ev("start", ExpectedStages(m)[i]), Ev("end", ExpectedStages(m)[i])>>])

\* the output files of the history stages of mode m, in order
HistoryFilesOf(m) ==
    <<waymore_file>>
        \o (IF m \in {"waymore-katana", "all"} THEN <<katana_file>> ELSE <<>>)
        \o (IF m = "all" THEN <<gau_file>> ELSE <<>>)

ToolsOfStage(s) ==
    CASE s = "discovery" -> {"subfinder", "httpx"}
      [] s = "filter" -> {"gf", "uro", "httpx"}
      [] s = "merge" -> {}
      [] OTHER -> {s}

StageEvents == SelectSeq(events, LAMBDA e : e[1] \in {"start", "end"})

MergeReads == SelectSeq(events, LAMBDA e : e[1] = "read")

\* events[i..] keep every tool call inside a stage that runs that tool and
\* every read of the merge inside the merge stage, with no stage starting
\* while another is open; open is the stage open before event i
RECURSIVE WellNested(_, _)
WellNested(i, open) ==
    IF i > Len(events) THEN TRUE
    ELSE LET e == events[i]
         IN CASE e[1] = "start" -> open = "none" /\ WellNested(i + 1, e[2])
              [] e[1] = "end" -> open = e[2] /\ WellNested(i + 1, "none")
              [] e[1] = "call" -> e[2] \in ToolsOfStage(open) /\ WellNested(i + 1, open)
              [] e[1] = "read" -> open = "merge" /\ WellNested(i + 1, open)

(* C4: the stages start and end one after another in the order discovery,    *)
(* waymore, katana, gau, merge, filter, knoxnl, restricted to the history    *)
(* stages the mode selects; every tool runs inside its own stage; a run in   *)
(* which no tool fails goes through all of them; and merge reads exactly the *)
(* files of the history stages that ran, in that order.                      *)
C4_StagesInOrderPerMode ==
    /\ IsPrefix(StageEvents, ExpectedStageEvents(mode))
    /\ WellNested(1, "none")
    /\ pc = "done" => /\ StageEvents = ExpectedStageEvents(mode)
                      /\ \A i \in 1..Len(calls) : calls[i].rc = 0
    /\ IF Ev("end", "merge") \in Range(events)
       THEN MergeReads = [i \in 1..Len(HistoryFilesOf(mode)) |->
                             Ev("read", HistoryFilesOf(mode)[i])]
       ELSE MergeReads = <<>>

C4_Witness ==
    /\ pc = "done"
    /\ mode = "waymore-katana"
    /\ files[gau_file] = File(<<Stale>>)
    /\ MergeReads = <<Ev("read", waymore_file), Ev("read", katana_file)>>
    /\ Len(calls) >= 8

-----------------------------------------------------------------------------
(* filter_with_gf_uro_httpx, entered with any merged file the merge can      *)
(* leave and fed any tool output                                             *)

\* most lines gf prints
MaxGf == 2

\* the three URLs of the structural-filter examples
EX1 == <<"h","t","t","p","s",":","/","/","x",".","t","e","s","t","/","a","?","x","=","1">>
EX2 == <<"h","t","t","p","s",":","/","/","x",".","t","e","s","t","/","a","p","p",".","j","s","?","x","=","1">>
EX3 == <<"h","t","t","p","s",":","/","/","x",".","t","e","s","t","/","a">>
Empty == <<>>

GfLines == {EX1, EX2, EX3, UB}
ToolLines == {UA, UB, Empty}

InitFilter ==
    /\ pc = "filter"
    /\ mode = "waymore"
    /\ rate \in Rates
    /\ path = Tools
    /\ \E m \in {<<>>, <<EX3, EX1, UB, EX2>>} :
          /\ files = [f \in Files |-> IF f = merged_file THEN File(m) ELSE NoFile]
          /\ arg = m
    /\ res = None
    /\ generated = <<waymore_file>>
    /\ pending = <<>>
    /\ idx = 0
    /\ acc = <<>>
    /\ gf_lines = <<>>
    /\ filtered = <<>>
    /\ normalized_all = <<>>
    /\ ret = <<>>
    /\ calls = <<>>
    /\ events = <<Ev("start", "filter")>>
    /\ exitCode = -1
    /\ missing = <<>>
    /\ err = ""
    /\ snapshot = [f \in Files |-> IF f = merged_file THEN Written(files[f]) ELSE Unwritten]

NextFilter ==
    \/ FilterBegin
    \/ GfCall(SeqsUpTo(GfLines, MaxGf))
    \/ UroCall(SeqsUpTo(ToolLines, MaxOut))
    \/ HttpxUrlsCall(SeqsUpTo({UA, Empty}, MaxOut))

SpecFilter == InitFilter /\ [][NextFilter]_vars

\* the inputs of the calls of one tool so far, concatenated
InputsOf(tool) ==
    Concat([i \in 1..Len(calls) |->
               IF calls[i].tool = tool THEN calls[i].input ELSE <<>>])

ToolsCalled == [i \in 1..Len(calls) |-> calls[i].tool]

\* the lines of gf's output that contain '=' and that the extension predicate
\* does not exclude, in gf's order
Retained ==
    SelectSeq(gf_lines,
              LAMBDA l : "=" \in Range(l) /\ ~EXCLUDE_EXT_REGEX_search(l))

(* C6: the lines handed to uro are exactly the lines of gf's output that     *)
(* contain '=' and are not excluded by the extension predicate, in gf's      *)
(* order; https://x.test/a?x=1 is handed on, https://x.test/app.js?x=1 and   *)
(* https://x.test/a never are.                                               *)
C6_StructuralFilter ==
    LET passed == InputsOf("uro")
        kept == Retained
    IN /\ IsPrefix(passed, kept)
       /\ pc = "uro" => passed \o Concat(pending) = kept
       /\ pc \in {"httpx_urls", "knoxnl"} => passed = kept
       /\ (pc \in {"httpx_urls", "knoxnl"} /\ EX1 \in Range(gf_lines))
             => EX1 \in Range(passed)
       /\ EX2 \notin Range(passed)
       /\ EX3 \notin Range(passed)

C6_Witness ==
    /\ pc = "httpx_urls"
    /\ gf_lines = <<UB, EX1>>
    /\ rate = 1
    /\ calls[1].input = <<UB, EX3, EX1, EX2>>
    /\ InputsOf("uro") = <<UB, EX1>>

(* C10: when the stage returns, the output file exists, has no duplicate and *)
(* no empty line, and has as many lines as the returned live count; and when *)
(* the merged input had no lines, gf matched nothing, the structural filter  *)
(* retained nothing or normalization left nothing, the output file is empty, *)
(* no tool of a later sub-operation was invoked, and the returned counts are *)
(* those of the sub-operations done followed by zeros.                       *)
C10_ShortCircuitAndOutput ==
    pc = "knoxnl" =>
        LET out == files[merged_file]
            emptied == out = File(<<>>)
            kept == Retained
        IN /\ out.exists
           /\ \A k, l \in 1..Len(out.lines) : k # l => out.lines[k] # out.lines[l]
           /\ \A k \in 1..Len(out.lines) : out.lines[k] # <<>>
           /\ Len(ret) = 4
           /\ Len(out.lines) = ret[4]
           /\ arg = <<>> =>
                 emptied /\ ToolsCalled = <<>> /\ ret = <<0, 0, 0, 0>>
           /\ (arg # <<>> /\ gf_lines = <<>>) =>
                 emptied /\ ToolsCalled = <<"gf">> /\ ret = <<0, 0, 0, 0>>
           /\ (gf_lines # <<>> /\ kept = <<>>) =>
                 emptied /\ ToolsCalled = <<"gf">> /\ ret = <<Len(gf_lines), 0, 0, 0>>
           /\ (kept # <<>> /\ normalized_all = <<>>) =>
                 /\ emptied
                 /\ "httpx" \notin Range(ToolsCalled)
                 /\ ret = <<Len(gf_lines), Len(kept), 0, 0>>
           /\ normalized_all # <<>> =>
                 ret = <<Len(gf_lines), Len(kept), Len(normalized_all),
                         Len(out.lines)>>

C10_Witness ==
    /\ pc = "knoxnl"
    /\ rate = 1
    /\ Len(filtered) = 2
    /\ normalized_all = <<>>
    /\ ToolsCalled = <<"gf", "uro", "uro">>
    /\ ret = <<2, 2, 0, 0>>
    /\ files[merged_file] = File(<<>>)

=============================================================================
